---- MODULE Spec2Model ----
(***************************************************************************)
(* Model of the TutorEase course-section page: the Index page controller   *)
(* (formData / isLoading / results), the CourseForm intake handler, the    *)
(* ProgressBar effect with its interval and grace timeout, and the         *)
(* generateFakeData templating function.                                   *)
(*                                                                         *)
(* Strings that the code inspects or interpolates (the topic) are          *)
(* sequences of one-character strings; strings the code only passes        *)
(* around are TLA+ strings.  Time is counted in the time-units of          *)
(* setInterval / setTimeout (milliseconds).                                *)
(***************************************************************************)
EXTENDS Integers, Sequences, FiniteSets, TLC

\* ------------------------------------------------------------------ bounds
\* Number of ProgressBar effect runs (stage entries) a behaviour may start.
MaxEntries == 3

\* ------------------------------------------------------- program constants
duration == 3000
interval == 30
GraceDelay == 500
ExportDelay == 1000
increment == 100 \div (duration \div interval)

\* null (a value distinct from every request, result and list)
Null == [null |-> TRUE]

\* ----------------------------------------------------------- string values
WebDevelopment == <<"W","e","b"," ","D","e","v","e","l","o","p","m","e","n","t">>
DataScience == <<"D","a","t","a"," ","S","c","i","e","n","c","e">>
MachineLearning == <<"M","a","c","h","i","n","e"," ","L","e","a","r","n","i","n","g">>
Robotics == <<"R","o","b","o","t","i","c","s">>
EmptyTopic == <<>>

Constructor == <<"c","o","n","s","t","r","u","c","t","o","r">>
MobileAppDevelopment == <<"M","o","b","i","l","e"," ","A","p","p"," ","D","e","v","e","l","o","p","m","e","n","t">>
QuantumComputing == <<"Q","u","a","n","t","u","m"," ","C","o","m","p","u","t","i","n","g">>
LowerCaseWebDevelopment == <<"w","e","b"," ","d","e","v","e","l","o","p","m","e","n","t">>

\* The values the topic selector of the form can hold in the model: the
\* initial empty value, a topic with its own roadmap and one without.
Topics == {EmptyTopic, WebDevelopment, Robotics}
\* The values the skill-level selector can hold: the initial empty value and a level.
SkillLevels == {"", "beginner"}

SubmittedDescriptionPrefix == <<"G","e","n","e","r","a","t","i","n","g"," ","l","e","a","r","n","i","n","g"," ","p","a","t","h"," ","f","o","r"," ">>
ReadyDescription == <<"Y","o","u","r"," ","p","e","r","s","o","n","a","l","i","z","e","d"," ","r","o","a","d","m","a","p"," ","h","a","s"," ","b","e","e","n"," ","g","e","n","e","r","a","t","e","d">>
OReillyPrefix == <<"O","'","R","e","i","l","l","y"," ","b","o","o","k","s"," ","o","n"," ">>
DeveloperSuffix == <<" ","D","e","v","e","l","o","p","e","r"," ","a","t"," ","t","e","c","h"," ","c","o","m","p","a","n","i","e","s">>

\* s contains t as a contiguous substring
Contains(s, t) ==
  \E i \in 0..(Len(s) - Len(t)) : SubSeq(s, i + 1, i + Len(t)) = t

\* topic.split(' ')[0]: the characters before the first space
RECURSIVE FirstWord(_)
FirstWord(s) ==
  IF s = <<>> \/ Head(s) = " " THEN <<>> ELSE <<Head(s)>> \o FirstWord(Tail(s))

\* ------------------------------------------------------- generateFakeData
\* The property names every object literal inherits from Object.prototype: a
\* lookup map[key] with such a key yields the inherited member, not undefined.
ObjectPrototypeNames ==
  { "constructor", "toString", "valueOf", "hasOwnProperty", "isPrototypeOf", "propertyIsEnumerable", "toLocaleString", "__proto__", "__defineGetter__", "__defineSetter__", "__lookupGetter__", "__lookupSetter__" }

\* the same names as topics
ObjectPrototypeTopics ==
  { <<"c","o","n","s","t","r","u","c","t","o","r">>,
    <<"t","o","S","t","r","i","n","g">>,
    <<"v","a","l","u","e","O","f">>,
    <<"h","a","s","O","w","n","P","r","o","p","e","r","t","y">>,
    <<"i","s","P","r","o","t","o","t","y","p","e","O","f">>,
    <<"p","r","o","p","e","r","t","y","I","s","E","n","u","m","e","r","a","b","l","e">>,
    <<"t","o","L","o","c","a","l","e","S","t","r","i","n","g">>,
    <<"_","_","p","r","o","t","o","_","_">>,
    <<"_","_","d","e","f","i","n","e","G","e","t","t","e","r","_","_">>,
    <<"_","_","d","e","f","i","n","e","S","e","t","t","e","r","_","_">>,
    <<"_","_","l","o","o","k","u","p","G","e","t","t","e","r","_","_">>,
    <<"_","_","l","o","o","k","u","p","S","e","t","t","e","r","_","_">> }

\* the value of such a lookup: a function or object of the runtime, not a list
InheritedMember(name) == <<"Object.prototype", name>>

learningPathMap(topic) ==
  IF topic = WebDevelopment THEN
    << "1. HTML & CSS Fundamentals - Create responsive layouts",
       "2. JavaScript Basics - Learn syntax and core concepts",
       "3. Frontend Frameworks - Choose React, Angular, or Vue",
       "4. Backend Development - Node.js and Express",
       "5. Database Integration - SQL and NoSQL options",
       "6. API Design - RESTful and GraphQL approaches",
       "7. Deployment & DevOps - CI/CD pipelines" >>
  ELSE IF topic = DataScience THEN
    << "1. Programming Basics - Python and libraries",
       "2. Statistics Fundamentals - Probability and inference",
       "3. Data Manipulation - Pandas and data cleaning",
       "4. Data Visualization - Matplotlib and Seaborn",
       "5. Machine Learning Basics - Scikit-learn",
       "6. Deep Learning - TensorFlow or PyTorch",
       "7. Data Science Projects - Portfolio building" >>
  ELSE IF topic = MachineLearning THEN
    << "1. Mathematics Fundamentals - Linear algebra and calculus",
       "2. Statistical Modeling - Probability distributions",
       "3. ML Algorithms - Classification, regression, clustering",
       "4. Feature Engineering - Selection and transformation",
       "5. Model Evaluation - Metrics and validation",
       "6. Deep Learning - Neural networks and architectures",
       "7. MLOps - Deployment and monitoring" >>
  ELSE IF topic \in ObjectPrototypeTopics THEN InheritedMember(topic)
  ELSE <<>>

learningPathKeys == {WebDevelopment, DataScience, MachineLearning}

defaultLearningPath ==
  << "1. Fundamentals - Core concepts and principles",
     "2. Programming Skills - Required languages and tools",
     "3. Specialized Knowledge - Domain-specific techniques",
     "4. Advanced Topics - Deeper understanding of complex areas",
     "5. Project Work - Applied learning through creation",
     "6. Industry Standards - Best practices and workflows",
     "7. Continuous Learning - Keeping up with developments" >>

projectsByLevel(skillLevel) ==
  IF skillLevel = "beginner" THEN
    << "Personal portfolio website",
       "Simple calculator application",
       "To-do list manager",
       "Weather forecast app" >>
  ELSE IF skillLevel = "intermediate" THEN
    << "E-commerce platform with payment integration",
       "Social media dashboard with analytics",
       "Content management system",
       "Real-time chat application" >>
  ELSE IF skillLevel = "advanced" THEN
    << "AI-powered recommendation system",
       "Blockchain-based decentralized application",
       "Cloud-native microservices architecture",
       "Computer vision object detection system" >>
  ELSE IF skillLevel \in ObjectPrototypeNames THEN InheritedMember(skillLevel)
  ELSE <<>>

projectLevelKeys == {"beginner", "intermediate", "advanced"}

resources(topic) ==
  << "Udemy - Comprehensive video courses for practical skills",
     "Coursera - University-backed learning programs",
     "freeCodeCamp - Free interactive coding challenges",
     "GitHub repositories with example projects",
     "Stack Overflow - Community support for problems",
     OReillyPrefix \o topic >>

careerOpportunities(topic) ==
  << FirstWord(topic) \o DeveloperSuffix,
     "Freelance consultant for small businesses",
     "Technical lead at startups",
     "Senior specialist at enterprise organizations",
     "Technical educator or course creator" >>

generateFakeData(topic, skillLevel) ==
  [ topic |-> topic,
    skillLevel |-> skillLevel,
    learningPath |-> IF learningPathMap(topic) # <<>>
                     THEN learningPathMap(topic) ELSE defaultLearningPath,
    projects |-> IF projectsByLevel(skillLevel) # <<>>
                 THEN projectsByLevel(skillLevel) ELSE projectsByLevel("beginner"),
    resources |-> resources(topic),
    careerOpportunities |-> careerOpportunities(topic) ]

\* ------------------------------------------------------------------ state
VARIABLES
  formData,    \* Index: the request held, or Null
  isLoading,   \* Index: the progress stage is rendered
  results,     \* Index: the result held, or Null
  progress,    \* ProgressBar: percentage (0 while ProgressBar is unmounted)
  timer,       \* ProgressBar effect: id of the interval the live effect owns, 0 if none
  intervals,   \* active setInterval timers
  timeouts,    \* pending setTimeout(onComplete, 500) timers, in creation order
  entries,     \* number of effect runs (stage entries) started so far
  cbCount,     \* per stage entry: how often its completion callback was invoked
  resetKind,   \* what the last reset since the last accepted submit interrupted
  toasts,      \* the notifications emitted by the step just taken
  ev,          \* the step just taken and its inputs
  cardId,      \* ResultsCard: number of the mounted instance, 0 while unmounted
  mounts,      \* number of ResultsCard instances mounted so far
  exportConfirmed,    \* ResultsCard state
  showCoursesDialog,  \* ResultsCard state
  courseId,           \* ResultsCard state: the text of the course id input
  courseDetails,      \* ResultsCard state: the displayed detail record, or Null
  exportTimers,  \* pending setTimeout(..., 1000) timers of handleExportPDF
  dlCount,       \* per ResultsCard instance: downloads its timers triggered
  fnIn,          \* the request a direct evaluation of the templating was given
  fnOut          \* and the result it returned

cardState == <<cardId, mounts, exportConfirmed, showCoursesDialog, courseId,
               courseDetails>>
exportState == <<exportTimers, dlCount>>
fnState == <<fnIn, fnOut>>

vars == <<formData, isLoading, results, progress, timer, intervals, timeouts,
          entries, cbCount, resetKind, toasts, ev, cardState, exportState,
          fnState>>

RECURSIVE GCD(_, _)
GCD(a, b) == IF b = 0 THEN a ELSE GCD(b, a % b)
\* granularity of time in the model: every timer delay is a multiple of it
Quantum == GCD(GCD(interval, GraceDelay), ExportDelay)

NoEvent ==
  [ op |-> "init", topic |-> EmptyTopic, skillLevel |-> "", aiEnhanced |-> FALSE,
    called |-> FALSE, entry |-> 0, age |-> 0, progress |-> 0,
    card |-> 0, id |-> "", file |-> <<>>, content |-> "" ]

Event(op) == [NoEvent EXCEPT !.op = op]

Init ==
  /\ formData = Null
  /\ isLoading = FALSE
  /\ results = Null
  /\ progress = 0
  /\ timer = 0
  /\ intervals = {}
  /\ timeouts = <<>>
  /\ entries = 0
  /\ cbCount = [e \in 1..MaxEntries |-> 0]
  /\ resetKind = "none"
  /\ toasts = <<>>
  /\ ev = NoEvent
  /\ cardId = 0
  /\ mounts = 0
  /\ exportConfirmed = FALSE
  /\ showCoursesDialog = FALSE
  /\ courseId = ""
  /\ courseDetails = Null
  /\ exportTimers = <<>>
  /\ dlCount = [c \in 1..MaxEntries |-> 0]
  /\ fnIn = Null
  /\ fnOut = Null

\* ------------------------------------------------------------- ProgressBar
clearInterval(S, id) == {i \in S : i.id # id}

\* The interval a run of the effect starts; onComplete is the request its
\* handleLoadingComplete closure captured.  age and ticks measure the entry.
NewInterval(id, onComplete) ==
  [ id |-> id, rem |-> interval, onComplete |-> onComplete, age |-> 0, ticks |-> 0 ]

\* The cleanup function of the effect: clearInterval(timer)
EffectCleanup(S, t) == clearInterval(S, t)

\* What React commits for ProgressBar after a render of Index.  Every render of
\* Index makes a new handleLoadingComplete, so while ProgressBar stays mounted
\* the effect's dependency onComplete has changed: cleanup, then the effect.
\* With nowLoading false ProgressBar is (or stays) unmounted: cleanup only.
ProgressBarEffect(nowLoading, onComplete) ==
  IF nowLoading
  THEN /\ progress' = 0
       /\ entries' = entries + 1
       /\ timer' = entries + 1
       /\ intervals' = EffectCleanup(intervals, timer)
                         \cup {NewInterval(entries + 1, onComplete)}
  ELSE /\ progress' = 0
       /\ entries' = entries
       /\ timer' = 0
       /\ intervals' = EffectCleanup(intervals, timer)

\* The updater passed to setProgress comparing with >, so that 100 itself
\* does not complete
ProgressUpdater_StrictCompare(prev) ==
  LET newProgress == prev + increment IN
  IF newProgress > 100
  THEN [ value |-> 100, clear |-> TRUE, schedule |-> TRUE ]
  ELSE [ value |-> newProgress, clear |-> FALSE, schedule |-> FALSE ]

\* The updater passed to setProgress with setTimeout(onComplete, 500) outside
\* the branch, so that every tick schedules the callback
ProgressUpdater_ScheduleEveryTick(prev) ==
  LET newProgress == prev + increment IN
  IF newProgress >= 100
  THEN [ value |-> 100, clear |-> TRUE, schedule |-> TRUE ]
  ELSE [ value |-> newProgress, clear |-> FALSE, schedule |-> TRUE ]

\* The updater passed to setProgress: the new value, whether it stops the
\* interval (clearInterval(timer)) and whether it schedules onComplete
\* (setTimeout(onComplete, 500)).
ProgressUpdater(prev) ==
  LET newProgress == prev + increment IN
  IF newProgress >= 100
  THEN [ value |-> 100, clear |-> TRUE, schedule |-> TRUE ]
  ELSE [ value |-> newProgress, clear |-> FALSE, schedule |-> FALSE ]

\* The interval callback without clearInterval(timer): it is re-armed always
IntervalAfterTick_NoClear(S, i, clear) ==
  (S \ {i}) \cup {[i EXCEPT !.rem = interval, !.ticks = @ + 1]}

\* What a firing does to the interval: stopped by the updater's
\* clearInterval(timer), re-armed by the browser otherwise
IntervalAfterTick(S, i, clear) ==
  IF clear
  THEN clearInterval(S, i.id)
  ELSE (S \ {i}) \cup {[i EXCEPT !.rem = interval, !.ticks = @ + 1]}

\* One firing of the interval callback: setProgress(prev => ...)
Tick(i) ==
  /\ i \in intervals
  /\ i.rem = 0
  /\ IF timer = 0
     THEN \* no mounted ProgressBar: the state update is dropped
          /\ intervals' = (intervals \ {i}) \cup {[i EXCEPT !.rem = interval]}
          /\ UNCHANGED <<progress, timeouts>>
     ELSE LET u == ProgressUpdater(progress) IN
          /\ progress' = u.value
          /\ intervals' = IntervalAfterTick(intervals, i, u.clear)
          /\ timeouts' = IF u.schedule
                         THEN Append(timeouts, [ id |-> i.id, rem |-> GraceDelay,
                                                 onComplete |-> i.onComplete,
                                                 age |-> i.age ])
                         ELSE timeouts
  /\ toasts' = <<>>
  /\ ev' = [Event("tick") EXCEPT !.entry = i.id, !.age = i.age,
                                 !.progress = progress]
  /\ UNCHANGED <<formData, isLoading, results, timer, entries, cbCount, resetKind>>
  /\ UNCHANGED <<cardState, exportState, fnState>>

\* ------------------------------------------------------------- ResultsCard
\* What React commits for {results && <ResultsCard data={results} />} after a
\* render of Index with results = newResults: a new instance starts from the
\* useState initial values, a removed one loses its state, a kept one keeps it.
\* Nothing is done about the timers the removed instance started.
ResultsCardCommit(newResults) ==
  IF newResults # Null /\ results # Null
  THEN UNCHANGED cardState
  ELSE /\ mounts' = IF newResults # Null THEN mounts + 1 ELSE mounts
       /\ cardId' = IF newResults # Null THEN mounts + 1 ELSE 0
       /\ exportConfirmed' = FALSE
       /\ showCoursesDialog' = FALSE
       /\ courseId' = ""
       /\ courseDetails' = Null

\* mockCourses: the five catalog entries (ratings in tenths)
mockCourses ==
  << [ id |-> "132", title |-> "Web Development With Rust",
       rating |-> 50, difficulty |-> "Beginner" ],
     [ id |-> "396",
       title |-> "Web Design For Everybody: Basics Of Web Development & Coding",
       rating |-> 48, difficulty |-> "Beginner" ],
     [ id |-> "1606", title |-> "Introduction To Web Development",
       rating |-> 47, difficulty |-> "Beginner" ],
     [ id |-> "605",
       title |-> "Backend Web Development With Go: Build An E-Manual Server",
       rating |-> 48, difficulty |-> "Beginner" ],
     [ id |-> "196", title |-> "JavaScript Essentials for Modern Web Development",
       rating |-> 47, difficulty |-> "Beginner" ] >>

\* mockCourses.find(c => c.id === id): index of the first match, 0 if none
RECURSIVE FindCourse(_, _)
FindCourse(id, k) ==
  IF k > Len(mockCourses) THEN 0
  ELSE IF mockCourses[k].id = id THEN k ELSE FindCourse(id, k + 1)

\* the detail record built from the first catalog entry whatever entry matched
CourseDetailsFor_FirstCourse(id) ==
  LET k == FindCourse(id, 1) IN
  IF k # 0
  THEN [ id |-> mockCourses[k].id,
         title |-> mockCourses[1].title,
         instructor |-> "Dr. Jane Smith",
         difficulty |-> mockCourses[1].difficulty,
         rating |-> mockCourses[1].rating,
         skills |-> <<"Programming", "Web Technologies", "System Design">>,
         description |-> "Cutting-edge course exploring the latest trends and techniques in web development, tailored for beginner learners." ]
  ELSE [ id |-> id,
         title |-> "Custom Course",
         instructor |-> "Various Instructors",
         difficulty |-> "Self-paced",
         rating |-> 45,
         skills |-> <<"Programming", "Web Technologies">>,
         description |-> "A personalized course tailored to your learning objectives and skill level." ]

\* the record handleCourseIdSubmit displays for a non-empty id (ratings in tenths)
CourseDetailsFor(id) ==
  LET k == FindCourse(id, 1) IN
  IF k # 0
  THEN [ id |-> mockCourses[k].id,
         title |-> mockCourses[k].title,
         instructor |-> "Dr. Jane Smith",
         difficulty |-> mockCourses[k].difficulty,
         rating |-> mockCourses[k].rating,
         skills |-> <<"Programming", "Web Technologies", "System Design">>,
         description |-> "Cutting-edge course exploring the latest trends and techniques in web development, tailored for beginner learners." ]
  ELSE [ id |-> id,
         title |-> "Custom Course",
         instructor |-> "Various Instructors",
         difficulty |-> "Self-paced",
         rating |-> 45,
         skills |-> <<"Programming", "Web Technologies">>,
         description |-> "A personalized course tailored to your learning objectives and skill level." ]

\* \s of the regular expression, for the characters of the model
IsWhitespace(c) == c \in {" ", "\t", "\n"}

RECURSIVE SkipWhitespace(_)
SkipWhitespace(s) ==
  IF s # <<>> /\ IsWhitespace(Head(s)) THEN SkipWhitespace(Tail(s)) ELSE s

\* replace(/\s+/, '_') without the g flag: only the first run is replaced
RECURSIVE ReplaceWhitespaceRuns_FirstOnly(_)
ReplaceWhitespaceRuns_FirstOnly(s) ==
  IF s = <<>> THEN <<>>
  ELSE IF IsWhitespace(Head(s)) THEN <<"_">> \o SkipWhitespace(Tail(s))
  ELSE <<Head(s)>> \o ReplaceWhitespaceRuns_FirstOnly(Tail(s))

\* topic.replace(/\s+/g, '_'): every maximal run of whitespace becomes one "_"
RECURSIVE ReplaceWhitespaceRuns(_)
ReplaceWhitespaceRuns(s) ==
  IF s = <<>> THEN <<>>
  ELSE IF IsWhitespace(Head(s))
       THEN <<"_">> \o ReplaceWhitespaceRuns(SkipWhitespace(Tail(s)))
  ELSE <<Head(s)>> \o ReplaceWhitespaceRuns(Tail(s))

RoadmapSuffix == <<"_","r","o","a","d","m","a","p",".","p","d","f">>

\* the download attribute handleExportPDF sets
exportFileName(topic) == ReplaceWhitespaceRuns(topic) \o RoadmapSuffix

\* A template literal is the sequence of its fragments: the literal parts as
\* strings, data.topic and data.skillLevel as the values interpolated.
Leaf(text) == [ text |-> text, color |-> "white" ]

\* transformLearningPath reading the first phase from data.learningPath
transformLearningPath_FromData(data) ==
  << [ text |-> data.learningPath, color |-> "green-400" ],
     [ text |-> <<data.topic, " Skill Development (Intermediate) - 8-12 weeks">>,
       color |-> "green-400" ],
     [ text |-> <<data.topic, " Mastery & Specialization (Advanced) - 12-16 weeks">>,
       color |-> "green-400" ] >>

transformLearningPath(data) ==
  << [ text |-> <<"Foundations of ", data.topic, " (", data.skillLevel, ") - 4-6 weeks">>,
       color |-> "green-400",
       description |-> <<"Build core knowledge and fundamental skills in ", data.topic,
                         ". Focus on understanding basic principles and becoming familiar with essential tools.">>,
       subItems |->
         << [ text |-> <<"Key Concepts:">>, color |-> "cyan-400",
              subItems |-> << Leaf(<<data.topic, " basics">>),
                              Leaf(<<"Core principles">>),
                              Leaf(<<"Fundamental tools and techniques">>) >> ],
            [ text |-> <<"Milestones:">>, color |-> "pink-400",
              subItems |-> << Leaf(<<"Complete first ", data.topic, " exercise">>),
                              Leaf(<<"Build simple ", data.topic, " project">>) >> ],
            [ text |-> <<"Practice Activities:">>, color |-> "cyan-400",
              subItems |-> << Leaf(<<"Daily ", data.topic, " exercises">>),
                              Leaf(<<"Follow beginner tutorials">>) >> ] >> ],
     [ text |-> <<data.topic, " Skill Development (Intermediate) - 8-12 weeks">>,
       color |-> "green-400",
       description |-> <<"Deepen understanding of ", data.topic,
                         " and apply more advanced concepts. Focus on building practical skills through hands-on projects and implementation.">>,
       subItems |->
         << [ text |-> <<"Key Concepts:">>, color |-> "cyan-400",
              subItems |-> << Leaf(<<"Advanced ", data.topic, " techniques">>),
                              Leaf(<<"Applied projects">>),
                              Leaf(<<"Specialized tools">>) >> ],
            [ text |-> <<"Milestones:">>, color |-> "pink-400",
              subItems |-> << Leaf(<<"Complete medium complexity ", data.topic, " project">>),
                              Leaf(<<"Solve real-world problems">>) >> ],
            [ text |-> <<"Practice Activities:">>, color |-> "cyan-400",
              subItems |-> << Leaf(<<"Implement sample projects">>),
                              Leaf(<<"Participate in forums/discussions">>) >> ] >> ],
     [ text |-> <<data.topic, " Mastery & Specialization (Advanced) - 12-16 weeks">>,
       color |-> "green-400",
       description |-> <<"Develop expert-level skills in ", data.topic,
                         " with focus on real-world application. Specialize in specific areas and build a professional portfolio.">>,
       subItems |->
         << [ text |-> <<"Key Concepts:">>, color |-> "cyan-400",
              subItems |-> << Leaf(<<"Industry best practices">>),
                              Leaf(<<"Specialized frameworks">>),
                              Leaf(<<"Performance optimization">>) >> ] >> ] >>

transformProjects(data) ==
  << [ name |-> <<"Beginner Project: ", data.topic, " Fundamentals Application">>,
       description |-> <<"Apply basic ", data.topic,
                         " concepts in a simple project to practice fundamentals and gain confidence.">>,
       complexity |-> "Low", time |-> "1-2 weeks" ],
     [ name |-> <<"Intermediate Project: Interactive ", data.topic, " Application">>,
       description |-> <<"Create a more complex application using intermediate ", data.topic,
                         " skills with greater functionality and sophistication.">>,
       complexity |-> "Medium", time |-> "3-4 weeks" ],
     [ name |-> <<"Capstone Project: Advanced ", data.topic, " Implementation">>,
       description |-> <<"Apply all learned skills in a comprehensive ", data.topic,
                         " project that showcases mastery and solves a real-world problem.">>,
       complexity |-> "High", time |-> "6-8 weeks" ] >>

\* what ResultsCard renders as "Learning Path" and "Recommended Projects"
learningPathData(data) == transformLearningPath(data)
projectsData(data) == transformProjects(data)

\* render condition of the export prompt (the y and n buttons)
ExportPromptRendered == cardId # 0 /\ ~exportConfirmed

\* render condition of the "see recommended courses" button
CoursesButtonRendered == cardId # 0 /\ exportConfirmed /\ ~showCoursesDialog

\* The course id form placed outside the showCoursesDialog branch
CourseFormRendered_OutsideDialog == cardId # 0 /\ exportConfirmed

\* render condition of the course id form
CourseFormRendered == cardId # 0 /\ exportConfirmed /\ showCoursesDialog

\* handleExportPDF without setExportConfirmed(true)
handleExportPDF_NoConfirm ==
  /\ ExportPromptRendered
  /\ exportTimers' = Append(exportTimers, [ rem |-> ExportDelay, topic |-> results.topic,
                                            card |-> cardId, age |-> 0 ])
  /\ ev' = [Event("exportYes") EXCEPT !.card = cardId]
  /\ toasts' = <<>>
  /\ UNCHANGED <<formData, isLoading, results, progress, timer, intervals, timeouts,
                 entries, cbCount, resetKind, cardState, dlCount, fnState>>

\* onClick of "y": handleExportPDF, its callback capturing data.topic
handleExportPDF ==
  /\ ExportPromptRendered
  /\ exportConfirmed' = TRUE
  /\ exportTimers' = Append(exportTimers, [ rem |-> ExportDelay, topic |-> results.topic,
                                            card |-> cardId, age |-> 0 ])
  /\ ev' = [Event("exportYes") EXCEPT !.card = cardId]
  /\ toasts' = <<>>
  /\ UNCHANGED <<formData, isLoading, results, progress, timer, intervals, timeouts,
                 entries, cbCount, resetKind, cardId, mounts, showCoursesDialog,
                 courseId, courseDetails, dlCount, fnState>>

\* onClick of "n"
ExportNo ==
  /\ ExportPromptRendered
  /\ exportConfirmed' = TRUE
  /\ ev' = [Event("exportNo") EXCEPT !.card = cardId]
  /\ toasts' = <<>>
  /\ UNCHANGED <<formData, isLoading, results, progress, timer, intervals, timeouts,
                 entries, cbCount, resetKind, cardId, mounts, showCoursesDialog,
                 courseId, courseDetails, exportState, fnState>>

\* The callback of handleExportPDF's setTimeout: a download of empty content
ExportDownload(k) ==
  /\ k \in 1..Len(exportTimers)
  /\ exportTimers[k].rem = 0
  /\ LET t == exportTimers[k] IN
     /\ exportTimers' = SubSeq(exportTimers, 1, k - 1)
                          \o SubSeq(exportTimers, k + 1, Len(exportTimers))
     /\ dlCount' = [dlCount EXCEPT ![t.card] = @ + 1]
     /\ ev' = [Event("download") EXCEPT !.card = t.card, !.topic = t.topic,
                 !.age = t.age, !.file = exportFileName(t.topic), !.content = ""]
  /\ toasts' = <<>>
  /\ UNCHANGED <<formData, isLoading, results, progress, timer, intervals, timeouts,
                 entries, cbCount, resetKind, cardState, fnState>>

\* onClick of "Press Enter to see recommended courses..."
OpenCourses ==
  /\ CoursesButtonRendered
  /\ showCoursesDialog' = TRUE
  /\ ev' = [Event("openCourses") EXCEPT !.card = cardId]
  /\ toasts' = <<>>
  /\ UNCHANGED <<formData, isLoading, results, progress, timer, intervals, timeouts,
                 entries, cbCount, resetKind, cardId, mounts, exportConfirmed,
                 courseId, courseDetails, exportState, fnState>>

\* onChange of the course id input
setCourseId(value) ==
  /\ CourseFormRendered
  /\ courseId' = value
  /\ ev' = [Event("setCourseId") EXCEPT !.card = cardId, !.id = value]
  /\ toasts' = <<>>
  /\ UNCHANGED <<formData, isLoading, results, progress, timer, intervals, timeouts,
                 entries, cbCount, resetKind, cardId, mounts, exportConfirmed,
                 showCoursesDialog, courseDetails, exportState, fnState>>

\* What leaving or reloading the page does: the document, its state and its
\* timers are gone and Index starts again.
PageLoad ==
  /\ formData' = Null
  /\ isLoading' = FALSE
  /\ results' = Null
  /\ progress' = 0
  /\ timer' = 0
  /\ intervals' = {}
  /\ timeouts' = <<>>
  /\ exportTimers' = <<>>
  /\ cardId' = 0
  /\ exportConfirmed' = FALSE
  /\ showCoursesDialog' = FALSE
  /\ courseId' = ""
  /\ courseDetails' = Null
  /\ resetKind' = "ready"
  /\ toasts' = <<>>
  /\ UNCHANGED <<entries, cbCount, mounts, dlCount, fnState>>

\* handleCourseIdSubmit without e.preventDefault(): the browser submits the
\* form and loads the page again
handleCourseIdSubmit_NoPreventDefault ==
  /\ CourseFormRendered
  /\ ev' = [Event("courseIdSubmit") EXCEPT !.card = cardId, !.id = courseId,
              !.called = (courseId # "")]
  /\ PageLoad

\* onSubmit of the course id form
handleCourseIdSubmit ==
  /\ CourseFormRendered
  /\ ev' = [Event("courseIdSubmit") EXCEPT !.card = cardId, !.id = courseId,
              !.called = (courseId # "")]
  /\ courseDetails' = IF courseId = "" THEN courseDetails ELSE CourseDetailsFor(courseId)
  /\ toasts' = <<>>
  /\ UNCHANGED <<formData, isLoading, results, progress, timer, intervals, timeouts,
                 entries, cbCount, resetKind, cardId, mounts, exportConfirmed,
                 showCoursesDialog, courseId, exportState, fnState>>

\* onClick of the "Start a new search" button inside ResultsCard:
\* window.location.reload()
ReloadPage ==
  /\ cardId # 0
  /\ ev' = [Event("reload") EXCEPT !.card = cardId]
  /\ PageLoad


\* ------------------------------------------------------------------- Index
\* The "Request submitted" toast interpolating the skill level, not the topic
SubmittedToast_WrongField(data) ==
  [ title |-> "Request submitted",
    description |-> SubmittedDescriptionPrefix \o <<data.skillLevel>>,
    variant |-> "" ]

SubmittedToast(data) ==
  [ title |-> "Request submitted",
    description |-> SubmittedDescriptionPrefix \o data.topic,
    variant |-> "" ]

ReadyToast ==
  [ title |-> "Learning path ready!",
    description |-> ReadyDescription,
    variant |-> "default" ]

handleFormSubmit(data) ==
  /\ formData' = data
  /\ isLoading' = TRUE
  /\ results' = Null
  /\ toasts' = <<SubmittedToast(data)>>
  /\ ProgressBarEffect(TRUE, data)
  /\ ResultsCardCommit(Null)
  /\ resetKind' = "none"
  /\ UNCHANGED <<timeouts, cbCount, exportState, fnState>>

\* The early return with && in place of ||
isRejected_BothEmpty(topic, skillLevel) == topic = EmptyTopic /\ skillLevel = ""

\* CourseForm.handleSubmit: the early return
isRejected(topic, skillLevel) == topic = EmptyTopic \/ skillLevel = ""

\* CourseForm.handleSubmit with the form holding (topic, skillLevel, aiEnhanced).
\* The form is rendered only while formData is null.
handleSubmit(topic, skillLevel, aiEnhanced) ==
  /\ formData = Null
  /\ IF isRejected(topic, skillLevel)
     THEN /\ ev' = [Event("handleSubmit") EXCEPT !.topic = topic,
                      !.skillLevel = skillLevel, !.aiEnhanced = aiEnhanced]
          /\ toasts' = <<>>
          /\ UNCHANGED <<formData, isLoading, results, progress, timer, intervals,
                         timeouts, entries, cbCount, resetKind>>
          /\ UNCHANGED <<cardState, exportState, fnState>>
     ELSE /\ entries < MaxEntries
          /\ ev' = [Event("handleSubmit") EXCEPT !.topic = topic,
                      !.skillLevel = skillLevel, !.aiEnhanced = aiEnhanced,
                      !.called = TRUE, !.entry = entries + 1]
          /\ handleFormSubmit([ topic |-> topic, skillLevel |-> skillLevel,
                                aiEnhanced |-> aiEnhanced ])

\* handleLoadingComplete consulting the toggle of the request
resultData_AiAware(fd) ==
  IF fd.aiEnhanced
  THEN [generateFakeData(fd.topic, fd.skillLevel) EXCEPT
          !.careerOpportunities = Append(@, "AI-enhanced recommendation")]
  ELSE generateFakeData(fd.topic, fd.skillLevel)

\* handleLoadingComplete: the result it derives from the request it captured
resultData(fd) == generateFakeData(fd.topic, fd.skillLevel)

\* handleLoadingComplete as the closure made by the render in which formData
\* was fd; run when pending timeout number k fires.
handleLoadingComplete(k) ==
  /\ k \in 1..Len(timeouts)
  /\ timeouts[k].rem = 0
  /\ LET t == timeouts[k]
         fd == t.onComplete
     IN /\ timeouts' = SubSeq(timeouts, 1, k - 1) \o SubSeq(timeouts, k + 1, Len(timeouts))
        /\ cbCount' = [cbCount EXCEPT ![t.id] = @ + 1]
        /\ ev' = [Event("onComplete") EXCEPT !.entry = t.id, !.age = t.age,
                    !.progress = progress, !.called = (fd # Null)]
        /\ IF fd = Null
           THEN /\ toasts' = <<>>
                /\ UNCHANGED <<formData, isLoading, results, progress, timer,
                               intervals, entries, cardState>>
           ELSE /\ results' = resultData(fd)
                /\ isLoading' = FALSE
                /\ toasts' = <<ReadyToast>>
                /\ ProgressBarEffect(FALSE, formData)
                /\ ResultsCardCommit(resultData(fd))
                /\ UNCHANGED formData
  /\ UNCHANGED <<resetKind, exportState, fnState>>

\* onClick of "Start a new search", rendered while formData or results is set
Reset ==
  /\ formData # Null \/ results # Null
  /\ isLoading => entries < MaxEntries
  /\ formData' = Null
  /\ results' = Null
  /\ ProgressBarEffect(isLoading, Null)
  /\ resetKind' = IF isLoading THEN "loading" ELSE "ready"
  /\ toasts' = <<>>
  /\ ResultsCardCommit(Null)
  /\ ev' = Event("reset")
  /\ UNCHANGED <<isLoading, timeouts, cbCount, exportState, fnState>>

\* ------------------------------------------------------------------- time
\* Time passes by one quantum; no timer may be overdue.
Advance ==
  /\ intervals # {} \/ timeouts # <<>> \/ exportTimers # <<>>
  /\ \A i \in intervals : i.rem > 0
  /\ \A k \in 1..Len(timeouts) : timeouts[k].rem > 0
  /\ \A k \in 1..Len(exportTimers) : exportTimers[k].rem > 0
  /\ exportTimers' = [k \in 1..Len(exportTimers) |->
                        [exportTimers[k] EXCEPT !.rem = @ - Quantum, !.age = @ + Quantum]]
  /\ intervals' = {[i EXCEPT !.rem = @ - Quantum, !.age = @ + Quantum] : i \in intervals}
  /\ timeouts' = [k \in 1..Len(timeouts) |->
                    [timeouts[k] EXCEPT !.rem = @ - Quantum, !.age = @ + Quantum]]
  /\ toasts' = <<>>
  /\ ev' = Event("advance")
  /\ UNCHANGED <<formData, isLoading, results, progress, timer, entries, cbCount,
                 resetKind, cardState, dlCount, fnState>>

Submit == \E topic \in Topics, skillLevel \in SkillLevels, aiEnhanced \in BOOLEAN :
            handleSubmit(topic, skillLevel, aiEnhanced)
IntervalFires == \E i \in intervals : Tick(i)
TimeoutFires == \E k \in 1..Len(timeouts) : handleLoadingComplete(k)

Next == Submit \/ Reset \/ IntervalFires \/ TimeoutFires \/ Advance

Spec == Init /\ [][Next]_vars

\* The specification for liveness: the browser runs every due timer callback
\* and time passes, while the user need not act.  The toggle, which no handler
\* reads, is left at its initial value.
FairSubmit == \E topic \in Topics, skillLevel \in SkillLevels :
                handleSubmit(topic, skillLevel, FALSE)

FairNext == FairSubmit \/ Reset \/ IntervalFires \/ TimeoutFires \/ Advance

FairSpec ==
  /\ Init /\ [][FairNext]_vars
  /\ WF_vars(IntervalFires) /\ WF_vars(TimeoutFires) /\ WF_vars(Advance)

\* ------------------------------------------------- the page with the card
\* The ids typed into the course id input: none, a catalog id, an unknown id
CardCourseIds == {"", "132", "999999"}

ExportTimerFires == \E k \in 1..Len(exportTimers) : ExportDownload(k)
CardEditCourseId == \E value \in CardCourseIds : setCourseId(value)

CardNext ==
  \/ FairSubmit \/ Reset \/ IntervalFires \/ TimeoutFires \/ Advance
  \/ handleExportPDF \/ ExportNo \/ ExportTimerFires \/ OpenCourses
  \/ CardEditCourseId \/ handleCourseIdSubmit \/ ReloadPage

CardSpec == Init /\ [][CardNext]_vars

\* ------------------------------------------- the templating function alone
FnTopics ==
  { WebDevelopment, DataScience, MachineLearning, MobileAppDevelopment, Robotics,
    QuantumComputing, LowerCaseWebDevelopment, Constructor }
FnSkillLevels ==
  { "", "beginner", "intermediate", "advanced", "expert", "Beginner", "constructor" }

\* handleLoadingComplete's derivation applied to a request, outside a session
Derive(fd) ==
  /\ fnIn' = fd
  /\ fnOut' = resultData(fd)
  /\ ev' = [Event("derive") EXCEPT !.topic = fd.topic, !.skillLevel = fd.skillLevel,
              !.aiEnhanced = fd.aiEnhanced]
  /\ UNCHANGED <<formData, isLoading, results, progress, timer, intervals, timeouts,
                 entries, cbCount, resetKind, toasts, cardState, exportState>>

DeriveAny ==
  \E topic \in FnTopics, skillLevel \in FnSkillLevels, aiEnhanced \in BOOLEAN :
    Derive([ topic |-> topic, skillLevel |-> skillLevel, aiEnhanced |-> aiEnhanced ])

FnNext == DeriveAny

FnSpec == Init /\ [][FnNext]_vars

\* ------------------------------------------------- ResultsCard on its own
TwoSpaces == <<"A", " ", " ", "B">>
TabAndSpace == <<"A", "\t", " ", "B", " ", "C">>

PropsTopics == { WebDevelopment, TwoSpaces, TabAndSpace }

\* data props: what generateFakeData returns, and the same with other lists
PropsData ==
  LET derived == { generateFakeData(topic, "beginner") : topic \in PropsTopics } IN
  derived \cup { [d EXCEPT !.learningPath = <<"Step one">>,
                           !.projects = <<"Another project">>] : d \in derived }

\* every id the catalog holds, the empty input and ids it does not hold
AllCourseIds == {"", "132", "396", "1606", "605", "196", "999999", " 132"}

\* <ResultsCard data={data} /> just mounted by a page that holds data
PropsInit ==
  \E data \in PropsData :
    /\ formData = [ topic |-> data.topic, skillLevel |-> data.skillLevel,
                    aiEnhanced |-> FALSE ]
    /\ isLoading = FALSE
    /\ results = data
    /\ progress = 0
    /\ timer = 0
    /\ intervals = {}
    /\ timeouts = <<>>
    /\ entries = 1
    /\ cbCount = [e \in 1..MaxEntries |-> IF e = 1 THEN 1 ELSE 0]
    /\ resetKind = "none"
    /\ toasts = <<>>
    /\ ev = NoEvent
    /\ cardId = 1
    /\ mounts = 1
    /\ exportConfirmed = FALSE
    /\ showCoursesDialog = FALSE
    /\ courseId = ""
    /\ courseDetails = Null
    /\ exportTimers = <<>>
    /\ dlCount = [c \in 1..MaxEntries |-> 0]
    /\ fnIn = Null
    /\ fnOut = Null

PropsEditCourseId == \E value \in AllCourseIds : setCourseId(value)

PropsNext ==
  \/ handleExportPDF \/ ExportNo \/ ExportTimerFires \/ OpenCourses
  \/ PropsEditCourseId \/ handleCourseIdSubmit \/ Advance

PropsSpec == PropsInit /\ [][PropsNext]_vars

\* ----------------------------------------------------------------- phases
IsIdle == formData = Null /\ ~isLoading /\ results = Null
IsAwaitingResult == formData # Null /\ isLoading /\ results = Null
IsReady == formData # Null /\ ~isLoading /\ results # Null

TypeOK ==
  /\ isLoading \in BOOLEAN
  /\ progress \in 0..100
  /\ entries \in 0..MaxEntries
  /\ timer \in 0..MaxEntries

\* ------------------------------------------------------------------ claims

\* C1: once the page is reset while the progress stage is active (after an
\* accepted submit, before that entry's completion callback fired), no
\* completion callback is invoked until a new submit is accepted.
C1_NoCallbackAfterReset == ev.op = "onComplete" => resetKind # "loading"

\* C2: after the page-level reset, and until the next accepted submit, the
\* session is Idle: formData = null, results = null, isLoading = false.
C2_ResetLeadsToIdle == resetKind # "none" => IsIdle

\* C3: (formData, isLoading, results) is always one of Idle, AwaitingResult,
\* Ready.
C3_ThreePhases == IsIdle \/ IsAwaitingResult \/ IsReady

\* C4: a stage entry that runs with no reset and no re-entry (it is still the
\* live effect) has its completion callback invoked exactly once, with
\* progress = 100 at the invocation, and no tick changes progress while the
\* callback is pending.
C4_CompletionOnce ==
  /\ [][ (ev'.op = "onComplete" /\ timer # 0 /\ ev'.entry = timer)
           => (progress = 100 /\ cbCount'[timer] = 1) ]_vars
  /\ [][ ((\E k \in 1..Len(timeouts) : timeouts[k].id = timer) /\ ev'.op = "tick")
           => progress' = progress ]_vars
  /\ \A e \in 1..MaxEntries : (timer = e) ~> (cbCount[e] = 1 \/ timer # e)

\* the callback of the latest entry has run after an uninterrupted stage
C4_Witness ==
  /\ ev.op = "onComplete" /\ ev.called /\ ev.progress = 100
  /\ ev.entry = entries /\ cbCount[ev.entry] = 1
  /\ resetKind = "none" /\ IsReady

\* C5: a form submit with an empty topic or an empty skillLevel is a no-op:
\* handleFormSubmit is not called, no notification is emitted, and formData,
\* isLoading and results are unchanged.
C5_RejectedSubmitNoOp ==
  [][ (ev'.op = "handleSubmit" /\ (ev'.topic = EmptyTopic \/ ev'.skillLevel = ""))
        => /\ ~ev'.called
           /\ toasts' = <<>>
           /\ UNCHANGED <<formData, isLoading, results>>
           /\ (IsIdle => IsIdle') ]_vars

\* a submit with a topic but no skill level was just rejected in Idle
C5_Witness ==
  /\ ev.op = "handleSubmit" /\ ev.topic = WebDevelopment /\ ev.skillLevel = ""
  /\ ~ev.called /\ IsIdle

\* C6: a submit with non-empty topic and skillLevel taken in Idle stores
\* exactly the submitted triple, enters AwaitingResult with results = null,
\* and emits exactly one "Request submitted" notification whose description
\* contains the topic.
C6_AcceptedSubmit ==
  [][ (IsIdle /\ ev'.op = "handleSubmit" /\ ev'.topic # EmptyTopic /\ ev'.skillLevel # "")
        => /\ formData' = [ topic |-> ev'.topic, skillLevel |-> ev'.skillLevel,
                            aiEnhanced |-> ev'.aiEnhanced ]
           /\ isLoading' /\ results' = Null
           /\ Len(toasts') = 1
           /\ toasts'[1].title = "Request submitted"
           /\ Contains(toasts'[1].description, ev'.topic) ]_vars

\* the first submit of a session was just accepted
C6_Witness ==
  /\ ev.op = "handleSubmit" /\ ev.called /\ ev.topic = WebDevelopment
  /\ ev.aiEnhanced /\ entries = 1 /\ IsAwaitingResult /\ Len(toasts) = 1

\* C7: with no reset since the last accepted submit, the step that emits
\* "Learning path ready!" enters Ready with results =
\* generateFakeData(topic, skillLevel) of the submitted request.
C7_ReadyWithSubmittedResult ==
  (ev.op = "onComplete" /\ ev.called /\ resetKind = "none")
    => /\ IsReady
       /\ results = generateFakeData(formData.topic, formData.skillLevel)

\* C8: every stage entry sets progress to 0 and starts a fresh interval;
\* there is never more than one active interval, and never an active
\* interval together with a pending grace timeout of an earlier entry.
C8_SingleTimer ==
  /\ ((ev.op = "reset" \/ (ev.op = "handleSubmit" /\ ev.called)) /\ isLoading)
       => (progress = 0 /\ NewInterval(timer, formData) \in intervals)
  /\ Cardinality(intervals) <= 1
  /\ \A i \in intervals : \A k \in 1..Len(timeouts) : timeouts[k].id >= i.id

\* C9: each stage entry has at most one completion callback invocation, and
\* no tick of an entry is processed once its callback is pending or invoked.
C9_AtMostOncePerEntry ==
  /\ \A e \in 1..MaxEntries : cbCount[e] <= 1
  /\ ev.op = "tick" => cbCount[ev.entry] = 0
  /\ \A i \in intervals :
       /\ cbCount[i.id] = 0
       /\ \A k \in 1..Len(timeouts) : timeouts[k].id # i.id

\* the callback of an entry that a later entry replaced has been invoked
C9_Witness ==
  ev.op = "onComplete" /\ ev.entry < entries /\ cbCount[ev.entry] = 1

\* C10: within one entry progress starts at 0, is ticks * 1 with a tick every
\* 30 units, stays in 0..100 and never decreases; the 100th tick (3000 units
\* after entry) sets it to 100 and stops the interval, and the callback runs
\* 500 units later, 3500 units after entry.
C10_LinearProgress ==
  /\ [](/\ increment = 1
        /\ progress \in 0..100
        /\ \A i \in intervals :
             i.id = timer =>
               /\ progress = i.ticks * increment
               /\ i.ticks < duration \div interval
               /\ i.age = i.ticks * interval + (interval - i.rem)
        /\ \A k \in 1..Len(timeouts) :
             /\ timeouts[k].age = duration + (GraceDelay - timeouts[k].rem)
             /\ timeouts[k].id = timer =>
                  (progress = 100 /\ \A i \in intervals : i.id # timer)
        /\ ev.op = "onComplete" => ev.age = duration + GraceDelay)
  /\ [][ timer' = timer => progress' >= progress ]_vars

\* a completion callback has run, 3500 units after its entry, at 100 percent
C10_Witness ==
  ev.op = "onComplete" /\ ev.age = 3500 /\ ev.progress = 100

\* C11: no download is triggered by the export timer of a ResultsCard
\* instance that has been removed: a download belongs to the mounted instance.
C11_NoDownloadAfterUnmount == ev.op = "download" => cardId = ev.card

\* C12: the derived result does not depend on aiEnhanced: every request with
\* the same topic and skillLevel derives the same learningPath, projects,
\* resources and careerOpportunities.
C12_AiEnhancedIgnored ==
  fnIn # Null =>
    \A aiEnhanced \in BOOLEAN :
      LET other == resultData([fnIn EXCEPT !.aiEnhanced = aiEnhanced]) IN
      /\ other.learningPath = fnOut.learningPath
      /\ other.projects = fnOut.projects
      /\ other.resources = fnOut.resources
      /\ other.careerOpportunities = fnOut.careerOpportunities

\* a request with the toggle on has been derived
C12_Witness == fnIn # Null /\ fnIn.aiEnhanced /\ fnIn.topic = WebDevelopment

\* C13: for every non-empty topic and every skillLevel, learningPath is the
\* table's 7-entry list for the three keys and the generic 7-entry list
\* otherwise, and projects is the level's 4-entry list for the three levels
\* and the beginner list otherwise.
C13_TotalWithFallbacks ==
  (fnIn # Null /\ fnIn.topic # EmptyTopic) =>
    /\ fnOut.learningPath = IF fnIn.topic \in learningPathKeys
                            THEN learningPathMap(fnIn.topic) ELSE defaultLearningPath
    /\ Len(fnOut.learningPath) = 7
    /\ fnOut.projects = IF fnIn.skillLevel \in projectLevelKeys
                        THEN projectsByLevel(fnIn.skillLevel)
                        ELSE projectsByLevel("beginner")
    /\ Len(fnOut.projects) = 4

\* d is the detail record the catalog prescribes for id
IsDetailFor(d, id) ==
  IF \E k \in 1..Len(mockCourses) : mockCourses[k].id = id
  THEN /\ d.id = id
       /\ \E k \in 1..Len(mockCourses) :
            /\ mockCourses[k].id = id
            /\ d.title = mockCourses[k].title
            /\ d.rating = mockCourses[k].rating
            /\ d.difficulty = mockCourses[k].difficulty
       /\ d.instructor = "Dr. Jane Smith"
       /\ d.skills = <<"Programming", "Web Technologies", "System Design">>
       /\ d.description = "Cutting-edge course exploring the latest trends and techniques in web development, tailored for beginner learners."
  ELSE d.id = id /\ d.title = "Custom Course"

\* C14 as claimed: after every course id submit the displayed record is the
\* one for the submitted id, whatever the id string.
C14_EveryIdReplaces ==
  ev.op = "courseIdSubmit" => (courseDetails # Null /\ IsDetailFor(courseDetails, ev.id))

\* C14 amended: a submit of a non-empty id displays the record for that id
\* (catalog entry or "Custom Course" placeholder); a submit of the empty id
\* leaves the displayed record as it was.
C14_NonEmptyIdReplaces ==
  [][ ev'.op = "courseIdSubmit" =>
        IF ev'.id = ""
        THEN courseDetails' = courseDetails
        ELSE courseDetails' # Null /\ IsDetailFor(courseDetails', ev'.id) ]_vars

\* the last catalog entry is displayed after its id was submitted
C14_Witness ==
  /\ ev.op = "courseIdSubmit" /\ ev.id = "196"
  /\ courseDetails # Null /\ courseDetails.id = "196"

\* topic with every space character replaced by an underscore
ReplaceEachSpace(s) == [i \in 1..Len(s) |-> IF s[i] = " " THEN "_" ELSE s[i]]

\* C15 as claimed: the download fires 1000 units after the confirmation, once,
\* with empty content, named topic with each space replaced by "_", then
\* "_roadmap.pdf".
C15_EachSpaceReplaced ==
  ev.op = "download" =>
    /\ ev.file = ReplaceEachSpace(ev.topic) \o RoadmapSuffix
    /\ ev.content = ""
    /\ ev.age = ExportDelay
    /\ dlCount[ev.card] = 1

\* positions of s that start a run of whitespace or hold another character
KeptPositions(s) ==
  {i \in 1..Len(s) : ~(IsWhitespace(s[i]) /\ i > 1 /\ IsWhitespace(s[i - 1]))}

\* name is s with every maximal run of whitespace replaced by one "_"
IsRunCollapsed(name, s) ==
  /\ Len(name) = Cardinality(KeptPositions(s))
  /\ \A i \in KeptPositions(s) :
       name[Cardinality({k \in KeptPositions(s) : k <= i})]
         = IF IsWhitespace(s[i]) THEN "_" ELSE s[i]

\* C15 amended: the download fires 1000 units after the confirmation, once,
\* with empty content, named topic with each maximal run of whitespace
\* replaced by one "_", then "_roadmap.pdf".
C15_WhitespaceRunsReplaced ==
  ev.op = "download" =>
    /\ Len(ev.file) >= Len(RoadmapSuffix)
    /\ SubSeq(ev.file, Len(ev.file) - Len(RoadmapSuffix) + 1, Len(ev.file)) = RoadmapSuffix
    /\ IsRunCollapsed(SubSeq(ev.file, 1, Len(ev.file) - Len(RoadmapSuffix)), ev.topic)
    /\ ev.content = ""
    /\ ev.age = ExportDelay
    /\ dlCount[ev.card] = 1

\* the download for a topic with a tab, a run of two whitespace characters and
\* a single space has fired
C15_Witness == ev.op = "download" /\ ev.topic = TabAndSpace

\* C16: the export answers, the download, opening the course list, editing
\* and submitting a course id leave formData, isLoading and results unchanged.
C16_SubFlowsKeepSession ==
  [][ ev'.op \in {"exportYes", "exportNo", "download", "openCourses", "setCourseId",
                  "courseIdSubmit"}
        => UNCHANGED <<formData, isLoading, results>> ]_vars

\* a course id was submitted and its record is displayed in Ready
C16_Witness ==
  ev.op = "courseIdSubmit" /\ ev.called /\ courseDetails # Null /\ IsReady

\* C17: the presented roadmap and project table depend only on data.topic and
\* data.skillLevel: they are the 3 phases Foundations, Skill Development,
\* Mastery & Specialization and 3 rows Low, Medium, High, the same for every
\* data with that topic and skillLevel whatever its learningPath and projects.
C17_PresentationIgnoresLists ==
  cardId # 0 =>
    LET lp == learningPathData(results)
        pj == projectsData(results)
    IN /\ Len(lp) = 3
       /\ lp[1].text[1] = "Foundations of "
       /\ lp[2].text[2] = " Skill Development (Intermediate) - 8-12 weeks"
       /\ lp[3].text[2] = " Mastery & Specialization (Advanced) - 12-16 weeks"
       /\ Len(pj) = 3
       /\ <<pj[1].complexity, pj[2].complexity, pj[3].complexity>>
            = <<"Low", "Medium", "High">>
       /\ \A d \in PropsData :
            (d.topic = results.topic /\ d.skillLevel = results.skillLevel)
              => (learningPathData(d) = lp /\ projectsData(d) = pj)

\* a card is mounted with lists that generateFakeData does not produce
C17_Witness ==
  cardId # 0 /\ results.learningPath = <<"Step one">> /\ results.topic = WebDevelopment

\* C18: whenever results is set, formData is set and results was derived from
\* it: same topic, same skillLevel.
C18_ResultMatchesRequest ==
  results # Null =>
    /\ formData # Null
    /\ results.topic = formData.topic
    /\ results.skillLevel = formData.skillLevel

\* number of pending export timers a ResultsCard instance started
PendingExports(c) ==
  Cardinality({k \in 1..Len(exportTimers) : exportTimers[k].card = c})

\* C19: within one ResultsCard instance exportConfirmed becomes true only by
\* "y" or "n" and never returns to false, the instance starts at most one
\* export timer and triggers at most one download, and a new instance starts
\* with exportConfirmed = false, the course list closed and no course details.
C19_ExportAnsweredOnce ==
  /\ [][ (cardId # 0 /\ cardId' = cardId /\ exportConfirmed) => exportConfirmed' ]_vars
  /\ [][ (~exportConfirmed /\ exportConfirmed') => ev'.op \in {"exportYes", "exportNo"} ]_vars
  /\ [](\A c \in 1..MaxEntries : PendingExports(c) + dlCount[c] <= 1)
  /\ [][ (cardId' # 0 /\ cardId' # cardId)
           => (~exportConfirmed' /\ ~showCoursesDialog' /\ courseDetails' = Null) ]_vars

\* a second result is presented after the first one was exported
C19_Witness == cardId = 2 /\ ~exportConfirmed /\ dlCount[1] = 1

\* C20: a course id is submitted only with the export prompt answered and the
\* course list open, and courseDetails # null implies both.
C20_LookupAfterExportAndList ==
  /\ [](courseDetails # Null => (exportConfirmed /\ showCoursesDialog))
  /\ [][ ev'.op \in {"setCourseId", "courseIdSubmit"}
           => (exportConfirmed /\ showCoursesDialog) ]_vars

\* course details are displayed
C20_Witness == cardId # 0 /\ courseDetails # Null /\ exportConfirmed /\ showCoursesDialog

====
